---- MODULE Spec2Model ----
\* A model of addresbook.py: the field validators (Phone, Birthday), Record,
\* AddressBook, the command handlers with their input_error wrapper, and the
\* command loop of main.
\*
\* Python strings are sequences of code points, so that len() and
\* str.isdigit() are computed as the interpreter computes them.
EXTENDS Integers, Sequences, FiniteSets, TLC

VARIABLES
    book,           \* AddressBook.data: an insertion-ordered dict, as a sequence of [key, rec]
    shown,          \* what the last step passed to view.display, in order
    birthday_list,  \* the list the last birthdays call built
    running,        \* main's while loop has not reached its break
    last,           \* the last call: [op, name, args, exc, ret], ret <<>> or <<value>>
    before,         \* history: AddressBook.data before the last call
    inserted,       \* history: the names given to add_record, in order of first use
    deleted         \* history: delete has removed an entry

vars == <<book, shown, birthday_list, running, last, before, inserted, deleted>>

----------------------------------------------------------------------------
\* Bounds of the model

MaxPhones == 2
FirstYear == 2023
NumYears == 2

----------------------------------------------------------------------------
\* Strings

Rep(c, n) == [i \in 1..n |-> c]

Range(s) == {s[i] : i \in 1..Len(s)}

\* the code points for which str.isdigit() is true, among those the inputs use:
\* ASCII 0-9, ARABIC-INDIC DIGIT ZERO..NINE, SUPERSCRIPT TWO
isdigit_char(c) == c \in 48..57 \/ c \in 1632..1641 \/ c = 178

\* str.isdigit(): non-empty and every character a digit
isdigit(s) == Len(s) > 0 /\ \A i \in 1..Len(s) : isdigit_char(s[i])

\* the code points the regular expression \d matches in a str pattern
\* (Unicode category Nd), among those the inputs use
re_d(c) == c \in 48..57 \/ c \in 1632..1641

\* int() of one decimal character
int_char(c) == IF c \in 48..57 THEN c - 48 ELSE c - 1632

\* the exceptions' messages
NoExc == "None"
ErrPhone == "Phone number must be 10 digits"
ErrNewPhone == "New phone number must be 10 digits"
ErrOldPhone == "Old phone number is not exist"
ErrDate == "Invalid date format. Use DD.MM.YYYY"
ErrBirthday == "Only one birthday is allowed per record."
ErrUnpack == "not enough values to unpack"
ErrTooMany == "too many values to unpack"
ErrIndex == "list index out of range"
ErrDayRange == "day is out of range for month"

None == <<>>

----------------------------------------------------------------------------
\* Calendar (datetime.date)

is_leap(y) == y % 4 = 0 /\ (y % 100 # 0 \/ y % 400 = 0)

days_in_month(y, m) ==
    IF m = 2 THEN (IF is_leap(y) THEN 29 ELSE 28)
    ELSE IF m \in {4, 6, 9, 11} THEN 30 ELSE 31

\* date(y, m, d) is constructible
valid_date(y, m, d) ==
    /\ y \in 1..9999
    /\ m \in 1..12
    /\ d \in 1..days_in_month(y, m)

days_before_year(y) ==
    (y - 1) * 365 + ((y - 1) \div 4) - ((y - 1) \div 100) + ((y - 1) \div 400)

RECURSIVE days_before_month(_, _)
days_before_month(y, m) ==
    IF m = 1 THEN 0 ELSE days_before_month(y, m - 1) + days_in_month(y, m - 1)

\* date.toordinal(): 0001-01-01 is day 1
toordinal(dt) == days_before_year(dt[1]) + days_before_month(dt[1], dt[2]) + dt[3]

\* date.weekday(): Monday is 0, Sunday is 6
weekday(dt) == (toordinal(dt) + 6) % 7

next_day(dt) ==
    IF dt[3] < days_in_month(dt[1], dt[2]) THEN <<dt[1], dt[2], dt[3] + 1>>
    ELSE IF dt[2] < 12 THEN <<dt[1], dt[2] + 1, 1>>
    ELSE <<dt[1] + 1, 1, 1>>

\* date + timedelta(days=n), n >= 0
RECURSIVE add_days(_, _)
add_days(dt, n) == IF n = 0 THEN dt ELSE add_days(next_day(dt), n - 1)

\* date.replace(year=y): the date, or an exception when y has no such day
replace_year(dt, y) ==
    IF valid_date(y, dt[2], dt[3])
    THEN [exc |-> NoExc, value |-> <<y, dt[2], dt[3]>>]
    ELSE [exc |-> ErrDayRange, value |-> None]

\* two decimal digits of n, zero padded
two_digits(n) == <<48 + ((n \div 10) % 10), 48 + (n % 10)>>

\* date.strftime("%Y.%m.%d")
strftime_Ymd(dt) ==
    <<48 + ((dt[1] \div 1000) % 10), 48 + ((dt[1] \div 100) % 10)>>
    \o two_digits(dt[1]) \o <<46>> \o two_digits(dt[2]) \o <<46>> \o two_digits(dt[3])

\* the day directive of strptime: 3[0-1]|[1-2]\d|0[1-9]|[1-9]| [1-9]
strptime_d(t) ==
    \/ Len(t) = 2 /\ t[1] = 51 /\ t[2] \in 48..49
    \/ Len(t) = 2 /\ t[1] \in 49..50 /\ re_d(t[2])
    \/ Len(t) = 2 /\ t[1] = 48 /\ t[2] \in 49..57
    \/ Len(t) = 1 /\ t[1] \in 49..57
    \/ Len(t) = 2 /\ t[1] = 32 /\ t[2] \in 49..57

\* the month directive of strptime: 1[0-2]|0[1-9]|[1-9]
strptime_m(t) ==
    \/ Len(t) = 2 /\ t[1] = 49 /\ t[2] \in 48..50
    \/ Len(t) = 2 /\ t[1] = 48 /\ t[2] \in 49..57
    \/ Len(t) = 1 /\ t[1] \in 49..57

\* the year directive of strptime: \d\d\d\d
strptime_Y(t) == Len(t) = 4 /\ \A i \in 1..4 : re_d(t[i])

\* int() of a string of decimal characters, blanks stripped
RECURSIVE int_str(_)
int_str(t) ==
    IF Len(t) = 0 THEN 0
    ELSE IF t[Len(t)] = 32 THEN int_str(SubSeq(t, 1, Len(t) - 1))
    ELSE 10 * int_str(SubSeq(t, 1, Len(t) - 1)) + int_char(t[Len(t)])

\* datetime.strptime(value, "%d.%m.%Y").date(): the directives hold no dot, so
\* the string matches only when its two dots are the format's
strptime_dmY(value) ==
    LET dots == {i \in 1..Len(value) : value[i] = 46} IN
    IF Cardinality(dots) # 2 THEN [exc |-> ErrDate, value |-> None]
    ELSE
        LET i1 == CHOOSE i \in dots : \A j \in dots : i <= j
            i2 == CHOOSE i \in dots : \A j \in dots : j <= i
            d  == SubSeq(value, 1, i1 - 1)
            m  == SubSeq(value, i1 + 1, i2 - 1)
            Y  == SubSeq(value, i2 + 1, Len(value))
        IN  IF /\ strptime_d(d) /\ strptime_m(m) /\ strptime_Y(Y)
               /\ valid_date(int_str(Y), int_str(m), int_str(d))
            THEN [exc |-> NoExc, value |-> <<int_str(Y), int_str(m), int_str(d)>>]
            ELSE [exc |-> ErrDate, value |-> None]

----------------------------------------------------------------------------
\* Fields

\* Phone.__init__: the value, or ValueError
Phone(value) ==
    IF Len(value) # 10 \/ ~isdigit(value)
    THEN [exc |-> ErrPhone, value |-> None]
    ELSE [exc |-> NoExc, value |-> value]

\* Birthday.__init__: the parsed date, or ValueError
Birthday(value) == strptime_dmY(value)

----------------------------------------------------------------------------
\* Record: [name, phones, birthday]; a method gives the record it leaves and
\* the exception it raises

\* Record.__init__
Record(name) == [name |-> name, phones |-> <<>>, birthday |-> None]

Record_add_phone(rec, number) ==
    LET p == Phone(number) IN
    IF p.exc # NoExc THEN [rec |-> rec, exc |-> p.exc]
    ELSE [rec |-> [rec EXCEPT !.phones = Append(@, p.value)], exc |-> NoExc]

RECURSIVE without(_, _)
without(phones, number) ==
    IF phones = <<>> THEN <<>>
    ELSE IF Head(phones) # number THEN <<Head(phones)>> \o without(Tail(phones), number)
    ELSE without(Tail(phones), number)

Record_remove_phone(rec, number) ==
    [rec |-> [rec EXCEPT !.phones = without(@, number)], exc |-> NoExc]

Record_edit_phone(rec, old_number, new_number) ==
    IF ~ \E i \in 1..Len(rec.phones) : rec.phones[i] = old_number
    THEN [rec |-> rec, exc |-> ErrOldPhone]
    ELSE IF Len(new_number) # 10 \/ ~isdigit(new_number)
    THEN [rec |-> rec, exc |-> ErrNewPhone]
    ELSE LET i == CHOOSE i \in 1..Len(rec.phones) :
                    /\ rec.phones[i] = old_number
                    /\ \A j \in 1..(i - 1) : rec.phones[j] # old_number
         IN  [rec |-> [rec EXCEPT !.phones[i] = new_number], exc |-> NoExc]

\* Record.find_phone: the position of the first phone equal to number, 0 for None
Record_find_phone(rec, number) ==
    IF \E i \in 1..Len(rec.phones) : rec.phones[i] = number
    THEN CHOOSE i \in 1..Len(rec.phones) :
            /\ rec.phones[i] = number
            /\ \A j \in 1..(i - 1) : rec.phones[j] # number
    ELSE 0

\* add_birthday without its test for a birthday already set
Record_add_birthday_overwrite(rec, value) ==
    LET b == Birthday(value) IN
    IF b.exc # NoExc THEN [rec |-> rec, exc |-> b.exc]
    ELSE [rec |-> [rec EXCEPT !.birthday = b.value], exc |-> NoExc]

Record_add_birthday(rec, value) ==
    IF rec.birthday = None
    THEN LET b == Birthday(value) IN
         IF b.exc # NoExc THEN [rec |-> rec, exc |-> b.exc]
         ELSE [rec |-> [rec EXCEPT !.birthday = b.value], exc |-> NoExc]
    ELSE [rec |-> rec, exc |-> ErrBirthday]

----------------------------------------------------------------------------
\* AddressBook

\* the position of the key in the dict, 0 when absent
index(data, name) ==
    IF \E i \in 1..Len(data) : data[i].key = name
    THEN CHOOSE i \in 1..Len(data) : data[i].key = name
    ELSE 0

\* a store that keeps the entry it should replace
setitem_append(data, key, record) == Append(data, [key |-> key, rec |-> record])

\* self.data[key] = record: a present key keeps its place, a new one goes last
setitem(data, key, record) ==
    IF index(data, key) # 0
    THEN [data EXCEPT ![index(data, key)] = [key |-> key, rec |-> record]]
    ELSE Append(data, [key |-> key, rec |-> record])

\* add_record that deletes a present key before it stores, moving it last
AddressBook_add_record_reinsert(data, record) ==
    setitem(SelectSeq(data, LAMBDA e : e.key # record.name), record.name, record)

AddressBook_add_record(data, record) == setitem(data, record.name, record)

\* AddressBook.find: the record, or None
AddressBook_find(data, name) ==
    IF index(data, name) # 0 THEN data[index(data, name)].rec ELSE None

AddressBook_delete(data, name) ==
    IF index(data, name) # 0
    THEN SubSeq(data, 1, index(data, name) - 1) \o SubSeq(data, index(data, name) + 1, Len(data))
    ELSE data


\* the record under a key the dict holds, after a method has changed it in place
mutate(data, name, record) == [data EXCEPT ![index(data, name)].rec = record]

----------------------------------------------------------------------------
\* The command handlers under input_error: each gives the dict it leaves, the
\* messages it displays, the exception it ends with (caught by the wrapper, or
\* by the handler itself) and the value the wrapper returns to main

\* what the wrapper of input_error returns: None, or the exception as a string
Returned(exc) == IF exc = NoExc THEN None ELSE <<"Error: " \o exc>>

handled(data, messages, exc) ==
    [book |-> data, shown |-> messages, exc |-> exc, ret |-> Returned(exc), list |-> <<>>]

\* add_contact that stores a new record whether or not the name is present
add_contact_replace(args, data) ==
    IF Len(args) < 2 THEN handled(data, <<>>, ErrUnpack)
    ELSE
        LET record == Record(args[1])
            data1 == AddressBook_add_record(data, record)
            message == IF index(data, args[1]) = 0 THEN "Contact added." ELSE "Contact updated."
            r == Record_add_phone(record, args[2])
        IN  IF r.exc # NoExc THEN handled(data1, <<>>, r.exc)
            ELSE handled(mutate(data1, args[1], r.rec), <<message>>, NoExc)

add_contact(args, data) ==
    IF Len(args) < 2 THEN handled(data, <<>>, ErrUnpack)
    ELSE
        LET name    == args[1]
            phone   == args[2]
            absent  == index(data, name) = 0
            record  == IF absent THEN Record(name) ELSE AddressBook_find(data, name)
            data1   == IF absent THEN AddressBook_add_record(data, record) ELSE data
            message == IF absent THEN "Contact added." ELSE "Contact updated."
            r       == IF phone # <<>> THEN Record_add_phone(record, phone)
                       ELSE [rec |-> record, exc |-> NoExc]
        IN  IF r.exc # NoExc THEN handled(data1, <<>>, r.exc)
            ELSE handled(mutate(data1, name, r.rec), <<message>>, NoExc)

add_birthday(args, data) ==
    IF Len(args) < 2 THEN handled(data, <<>>, ErrUnpack)
    ELSE IF Len(args) > 2 THEN handled(data, <<>>, ErrTooMany)
    ELSE
        LET name == args[1]
            birthday == args[2]
        IN  IF index(data, name) # 0
            THEN LET r == Record_add_birthday(AddressBook_find(data, name), birthday) IN
                 IF r.exc # NoExc THEN handled(data, <<>>, r.exc)
                 ELSE handled(mutate(data, name, r.rec), <<"Birthday added for {name}.">>, NoExc)
            ELSE handled(data, <<"Contact {name} not found.">>, NoExc)

show_birthday(args, data) ==
    IF Len(args) = 0 THEN handled(data, <<>>, ErrIndex)
    ELSE IF index(data, args[1]) # 0 /\ AddressBook_find(data, args[1]).birthday # None
    THEN handled(data, <<"{name}'s birthday is on {record.birthday}.">>, NoExc)
    ELSE handled(data, <<"Contact {name} not found or birthday not set.">>, NoExc)

\* the shift that takes a Saturday to the Sunday after it
days_until_monday_short(congratulation_weekday) == (6 - congratulation_weekday) % 7

\* (7 - congratulation_date.weekday()) % 7
days_until_monday(congratulation_weekday) == (7 - congratulation_weekday) % 7

\* the body of the loop of birthdays for one record: the entries it appends, or
\* the exception date.replace raises
birthdays_record(record, today) ==
    IF record.birthday = None THEN [exc |-> NoExc, list |-> <<>>]
    ELSE
        LET this_year == replace_year(record.birthday, today[1]) IN
        IF this_year.exc # NoExc THEN [exc |-> this_year.exc, list |-> <<>>]
        ELSE
            LET rolled == IF toordinal(this_year.value) < toordinal(today)
                          THEN replace_year(this_year.value, this_year.value[1] + 1)
                          ELSE this_year
            IN  IF rolled.exc # NoExc THEN [exc |-> rolled.exc, list |-> <<>>]
                ELSE
                    LET birthday_this_year == rolled.value
                        days_to_birthday == toordinal(birthday_this_year) - toordinal(today)
                        congratulation_date ==
                            IF weekday(birthday_this_year) >= 5
                            THEN add_days(birthday_this_year,
                                          days_until_monday(weekday(birthday_this_year)))
                            ELSE birthday_this_year
                    IN  IF 0 <= days_to_birthday /\ days_to_birthday <= 7
                        THEN [exc |-> NoExc,
                              list |-> <<[name |-> record.name,
                                          congratulation_date |-> strftime_Ymd(congratulation_date)]>>]
                        ELSE [exc |-> NoExc, list |-> <<>>]

\* the loop of birthdays over book.data.values(), from position i on
RECURSIVE birthdays_loop(_, _, _)
birthdays_loop(data, today, i) ==
    IF i > Len(data) THEN [exc |-> NoExc, list |-> <<>>]
    ELSE
        LET one == birthdays_record(data[i].rec, today) IN
        IF one.exc # NoExc THEN one
        ELSE LET rest == birthdays_loop(data, today, i + 1) IN
             IF rest.exc # NoExc THEN rest
             ELSE [exc |-> NoExc, list |-> one.list \o rest.list]

\* birthdays, with datetime.now().date() as today
birthdays(data, today) ==
    LET r == birthdays_loop(data, today, 1) IN
    IF r.exc # NoExc THEN handled(data, <<>>, r.exc)
    ELSE [handled(data,
                  IF r.list # <<>> THEN <<"Upcoming birthdays in the next week:">>
                  ELSE <<"No birthdays in the next week.">>,
                  NoExc) EXCEPT !.list = r.list]

ErrChangeArgs == "Invalid command. Please provide name, old phone number, and new phone number after 'change'."
ErrPhoneArgs == "Invalid command. Please provide a name after 'phone'."
ErrOldPhoneFor == "Old phone number {old_phone} not found for {name}."

change_phone(args, data) ==
    IF Len(args) # 3 THEN [handled(data, <<ErrChangeArgs>>, ErrChangeArgs) EXCEPT !.ret = None]
    ELSE
        LET name == args[1]
            old_phone == args[2]
            new_phone == args[3]
        IN  IF index(data, name) # 0
            THEN LET record == AddressBook_find(data, name) IN
                 IF ~ \E i \in 1..Len(record.phones) : record.phones[i] = old_phone
                 THEN [handled(data, <<"Error: " \o ErrOldPhoneFor>>, ErrOldPhoneFor)
                         EXCEPT !.ret = None]
                 ELSE LET r == Record_edit_phone(record, old_phone, new_phone) IN
                      IF r.exc # NoExc
                      THEN [handled(data, <<"Error: " \o r.exc>>, r.exc) EXCEPT !.ret = None]
                      ELSE handled(mutate(data, name, r.rec),
                                   <<"Phone number updated for {name}.">>, NoExc)
            ELSE handled(data, <<"Contact {name} not found.">>, NoExc)

show_phone(args, data) ==
    IF Len(args) # 1 THEN [handled(data, <<ErrPhoneArgs>>, ErrPhoneArgs) EXCEPT !.ret = None]
    ELSE IF index(data, args[1]) # 0
    THEN handled(data, <<"{name}'s phone number is {phone_numbers}.">>, NoExc)
    ELSE handled(data, <<"Contact {name} not found.">>, NoExc)

show_all_contacts(data) ==
    IF Len(data) > 0 THEN handled(data, <<"{contacts}">>, NoExc)
    ELSE handled(data, <<"Address book is empty.">>, NoExc)


----------------------------------------------------------------------------
\* Inputs

Ann == <<65, 110, 110>>
Bob == <<66, 111, 98>>
Cid == <<67, 105, 100>>
Names == {Ann, Bob}

P1 == Rep(49, 10)                  \* "1111111111"
P2 == Rep(50, 10)                  \* "2222222222"
PShort == Rep(49, 9)               \* "111111111"
PLong == Rep(49, 11)               \* "11111111111"
PAlpha == Rep(49, 9) \o <<97>>     \* "111111111a"
PArabic == Rep(1633, 10)           \* ten ARABIC-INDIC DIGIT ONE
PSuper == Rep(178, 10)             \* ten SUPERSCRIPT TWO

D1 == <<49, 50, 46, 48, 54, 46, 49, 57, 57, 48>>      \* "12.06.1990"
D2 == <<49, 53, 46, 48, 54, 46, 49, 57, 57, 53>>      \* "15.06.1995"
D3 == <<49, 54, 46, 48, 54, 46, 49, 57, 57, 54>>      \* "16.06.1996"
DJan == <<48, 49, 46, 48, 49, 46, 49, 57, 57, 48>>    \* "01.01.1990"
DLeap == <<50, 57, 46, 48, 50, 46, 50, 48, 48, 48>>   \* "29.02.2000"
DBad == <<51, 49, 46, 48, 50, 46, 50, 48, 50, 52>>    \* "31.02.2024"
DDash == <<49, 50, 45, 48, 54, 45, 49, 57, 57, 48>>   \* "12-06-1990"

\* the numbers and dates given to the methods of Record
PhoneInputs == {P1, P2, PArabic, PSuper, PShort, PLong, PAlpha}
DateInputs == {D1, D2, DBad, DDash}

\* the records given to add_record: built by Record(name), add_phone, add_birthday
RecordInputs ==
    {[name |-> n, phones |-> ps, birthday |-> b] :
        n \in Names, ps \in {<<>>, <<P2>>}, b \in {None, <<1995, 6, 15>>}}

\* the argument lists of the commands
AddArgs ==
    {<<>>, <<Ann>>, <<Ann, P1, P2>>, <<Bob, P1>>, <<Bob, PShort>>}
        \cup {<<Ann, p>> : p \in {P1, P2, PShort}}
ChangeArgs ==
    {<<Ann, P1>>, <<Cid, P1, P2>>, <<Bob, P1, PShort>>}
        \cup {<<Ann, old, new>> : old \in {P1, P2}, new \in {P1, P2, PShort}}
BirthdayArgs ==
    {<<Ann>>, <<Ann, D1, D1>>, <<Cid, D1>>, <<Bob, D1>>, <<Bob, DBad>>}
        \cup {<<Ann, d>> : d \in {D1, D2, DBad}}
NameArgs == {<<>>, <<Ann>>, <<Bob>>, <<Cid>>, <<Ann, Bob>>}
MainTodays == {<<2024, 6, 10>>, <<2023, 3, 1>>}

\* the scheduler's inputs: every day of the years, and birthdays of each kind
Years == FirstYear..(FirstYear + NumYears - 1)
Todays == {dt \in Years \X (1..12) \X (1..31) : valid_date(dt[1], dt[2], dt[3])}
SchedBirthdayArgs == {<<n, d>> : n \in Names, d \in {D1, D2, D3, DJan, DLeap}}

----------------------------------------------------------------------------
\* History

Call(op, name, args, exc, ret) ==
    [op |-> op, name |-> name, args |-> args, exc |-> exc, ret |-> ret]

Note(names, name) == IF name \in Range(names) THEN names ELSE Append(names, name)

WithinBounds(data) == \A i \in 1..Len(data) : Len(data[i].rec.phones) <= MaxPhones

----------------------------------------------------------------------------
\* The methods of AddressBook, called in any order

InitBook ==
    /\ book = <<>>
    /\ shown = <<>>
    /\ birthday_list = <<>>
    /\ running = TRUE
    /\ last = Call("init", None, <<>>, NoExc, None)
    /\ before = <<>>
    /\ inserted = <<>>
    /\ deleted = FALSE

AddRecord(record) ==
    /\ book' = AddressBook_add_record(book, record)
    /\ inserted' = Note(inserted, record.name)
    /\ last' = Call("add_record", record.name, <<record>>, NoExc, None)
    /\ before' = book
    /\ UNCHANGED <<shown, birthday_list, running, deleted>>

Find(name) ==
    /\ last' = Call("find", name, <<>>, NoExc,
                    IF index(book, name) # 0 THEN <<AddressBook_find(book, name)>> ELSE None)
    /\ before' = book
    /\ UNCHANGED <<book, shown, birthday_list, running, inserted, deleted>>

Delete(name) ==
    /\ book' = AddressBook_delete(book, name)
    /\ deleted' = (deleted \/ index(book, name) # 0)
    /\ last' = Call("delete", name, <<>>, NoExc, None)
    /\ before' = book
    /\ UNCHANGED <<shown, birthday_list, running, inserted>>

NextBook ==
    \/ \E record \in RecordInputs : AddRecord(record)
    \/ \E name \in Names : Find(name)
    \/ \E name \in Names : Delete(name)

SpecBook == InitBook /\ [][NextBook]_vars

----------------------------------------------------------------------------
\* The methods of Record, called in any order on the record the book holds
\* under Ann, next to a record under Bob

InitRecord ==
    /\ book = AddressBook_add_record(
                  AddressBook_add_record(<<>>, Record(Ann)),
                  [Record(Bob) EXCEPT !.phones = <<P1>>])
    /\ shown = <<>>
    /\ birthday_list = <<>>
    /\ running = TRUE
    /\ last = Call("init", None, <<>>, NoExc, None)
    /\ before = book
    /\ inserted = <<Ann, Bob>>
    /\ deleted = FALSE

Method(op, name, args, r) ==
    /\ book' = mutate(book, name, r.rec)
    /\ WithinBounds(book')
    /\ last' = Call(op, name, args, r.exc, None)
    /\ before' = book
    /\ UNCHANGED <<shown, birthday_list, running, inserted, deleted>>

AddPhone(name, number) ==
    Method("add_phone", name, <<number>>,
           Record_add_phone(AddressBook_find(book, name), number))

RemovePhone(name, number) ==
    Method("remove_phone", name, <<number>>,
           Record_remove_phone(AddressBook_find(book, name), number))

EditPhone(name, old_number, new_number) ==
    Method("edit_phone", name, <<old_number, new_number>>,
           Record_edit_phone(AddressBook_find(book, name), old_number, new_number))

FindPhone(name, number) ==
    /\ last' = Call("find_phone", name, <<number>>, NoExc,
                    <<Record_find_phone(AddressBook_find(book, name), number)>>)
    /\ before' = book
    /\ UNCHANGED <<book, shown, birthday_list, running, inserted, deleted>>

AddBirthday(name, value) ==
    Method("add_birthday", name, <<value>>,
           Record_add_birthday(AddressBook_find(book, name), value))

NextRecord ==
    \/ \E number \in PhoneInputs : AddPhone(Ann, number)
    \/ \E number \in PhoneInputs : RemovePhone(Ann, number)
    \/ \E old_number \in PhoneInputs, new_number \in PhoneInputs :
            EditPhone(Ann, old_number, new_number)
    \/ \E number \in PhoneInputs : FindPhone(Ann, number)
    \/ \E value \in DateInputs : AddBirthday(Ann, value)

SpecRecord == InitRecord /\ [][NextRecord]_vars

----------------------------------------------------------------------------
\* main: one action for each branch of the command loop

InitMain ==
    /\ book = <<>>
    /\ shown = <<"Welcome to the assistant bot!">>
    /\ birthday_list = <<>>
    /\ running = TRUE
    /\ last = Call("init", None, <<>>, NoExc, None)
    /\ before = <<>>
    /\ inserted = <<>>
    /\ deleted = FALSE

\* a branch that only displays
Display(op, message, goes_on) ==
    /\ running
    /\ shown' = <<message>>
    /\ running' = goes_on
    /\ last' = Call(op, None, <<>>, NoExc, None)
    /\ before' = book
    /\ UNCHANGED <<book, birthday_list, inserted, deleted>>

\* a branch that calls a handler and drops what it returns
Handle(op, args, h) ==
    /\ running
    /\ book' = h.book
    /\ WithinBounds(book')
    /\ shown' = h.shown
    /\ birthday_list' = h.list
    /\ last' = Call(op, None, args, h.exc, h.ret)
    /\ before' = book
    /\ UNCHANGED <<running, deleted>>

CmdEmpty == Display("", "Command not entered. Please enter a command.", TRUE)

CmdExit == Display("exit", "Good bye!", FALSE)

CmdHello == Display("hello", "How can I help you?", TRUE)

CmdInvalid == Display("invalid", "Invalid command.", TRUE)

CmdAdd(args) ==
    /\ Handle("add", args, add_contact(args, book))
    /\ inserted' = IF Len(args) >= 2 /\ index(book, args[1]) = 0
                   THEN Note(inserted, args[1]) ELSE inserted

CmdChange(args) ==
    /\ Handle("change", args, change_phone(args, book))
    /\ UNCHANGED inserted

CmdPhone(args) ==
    /\ Handle("phone", args, show_phone(args, book))
    /\ UNCHANGED inserted

CmdAll ==
    /\ Handle("all", <<>>, show_all_contacts(book))
    /\ UNCHANGED inserted

CmdAddBirthday(args) ==
    /\ Handle("add-birthday", args, add_birthday(args, book))
    /\ UNCHANGED inserted

CmdShowBirthday(args) ==
    /\ Handle("show-birthday", args, show_birthday(args, book))
    /\ UNCHANGED inserted

CmdBirthdays(today) ==
    /\ Handle("birthdays", <<today>>, birthdays(book, today))
    /\ UNCHANGED inserted

NextMain ==
    \/ CmdEmpty
    \/ CmdExit
    \/ CmdHello
    \/ \E args \in AddArgs : CmdAdd(args)
    \/ \E args \in ChangeArgs : CmdChange(args)
    \/ \E args \in NameArgs : CmdPhone(args)
    \/ CmdAll
    \/ \E args \in BirthdayArgs : CmdAddBirthday(args)
    \/ \E args \in NameArgs : CmdShowBirthday(args)
    \/ \E today \in MainTodays : CmdBirthdays(today)
    \/ CmdInvalid

SpecMain == InitMain /\ [][NextMain]_vars

----------------------------------------------------------------------------
\* The scheduler: main after "add Ann 1111111111" and "add Bob 1111111111" in
\* either order, taking add-birthday commands and then, on any day, one
\* birthdays command

InitSched ==
    /\ book \in {<<[key |-> a, rec |-> [Record(a) EXCEPT !.phones = <<P1>>]],
                   [key |-> b, rec |-> [Record(b) EXCEPT !.phones = <<P1>>]]>> :
                    a \in Names, b \in Names}
    /\ book[1].key # book[2].key
    /\ shown = <<"Contact added.">>
    /\ birthday_list = <<>>
    /\ running = TRUE
    /\ last = Call("add", None, <<book[2].key, P1>>, NoExc, None)
    /\ before = <<book[1]>>
    /\ inserted = <<book[1].key, book[2].key>>
    /\ deleted = FALSE

NextSched ==
    \/ \E args \in SchedBirthdayArgs : last.op # "birthdays" /\ CmdAddBirthday(args)
    \/ \E today \in Todays : last.op # "birthdays" /\ CmdBirthdays(today)

SpecSched == InitSched /\ [][NextSched]_vars

----------------------------------------------------------------------------
\* Properties

\* the string matches ^\d{10}$ with ASCII digits
TenAsciiDigits(s) == Len(s) = 10 /\ \A i \in 1..10 : s[i] \in 48..57

Keys(data) == [i \in 1..Len(data) |-> data[i].key]

\* the record the last call was made on, before and after it
Was == AddressBook_find(before, last.name)
Now == AddressBook_find(book, last.name)

\* C1: once a record has a birthday, no call changes it, and every add_birthday
\* call, with a valid or an invalid date string, fails with BirthdayAlreadySet
C1_BirthdayKept ==
    (last.op # "init" /\ Was.birthday # None) =>
        /\ Now.birthday = Was.birthday
        /\ last.op = "add_birthday" => last.exc = ErrBirthday

\* add_birthday with another valid date was called on a record with a birthday
C1_Witness ==
    /\ last.op = "add_birthday"
    /\ Was.birthday # None
    /\ Birthday(last.args[1]).exc = NoExc
    /\ Birthday(last.args[1]).value # Was.birthday

\* C2: every phone a record holds is 10 ASCII decimal digits, and add_phone and
\* edit_phone reject with InvalidPhone every string that does not match ^\d{10}$
C2_PhonesTenAsciiDigits ==
    /\ \A i \in 1..Len(book) : \A k \in 1..Len(book[i].rec.phones) :
            TenAsciiDigits(book[i].rec.phones[k])
    /\ (last.op = "add_phone" /\ ~TenAsciiDigits(last.args[1])) => last.exc = ErrPhone
    /\ (last.op = "edit_phone" /\ ~TenAsciiDigits(last.args[2]))
            => last.exc \in {ErrOldPhone, ErrNewPhone}

\* C3: edit_phone(old, new) fails with OldPhoneNotFound when no phone equals
\* old, else with InvalidPhone when new is not 10 digits, else replaces the
\* first phone equal to old in place and leaves everything else as it was
C3_EditPhone ==
    last.op = "edit_phone" =>
        LET old == last.args[1]
            new == last.args[2]
        IN  IF old \notin Range(Was.phones)
            THEN last.exc = ErrOldPhone /\ book = before
            ELSE IF ~TenAsciiDigits(new)
            THEN last.exc = ErrNewPhone /\ book = before
            ELSE /\ last.exc = NoExc
                 /\ Len(Now.phones) = Len(Was.phones)
                 /\ \E i \in 1..Len(Was.phones) :
                        /\ Was.phones[i] = old
                        /\ \A j \in 1..(i - 1) : Was.phones[j] # old
                        /\ Now.phones[i] = new
                        /\ \A j \in 1..Len(Was.phones) : j # i => Now.phones[j] = Was.phones[j]
                 /\ Now.name = Was.name /\ Now.birthday = Was.birthday
                 /\ Len(book) = Len(before)
                 /\ \A i \in 1..Len(book) : book[i].key # last.name => book[i] = before[i]

\* C4: the directory holds at most one record per name, and add_record under a
\* present name replaces the stored record: find gives the new record, and no
\* entry of the directory holds the earlier one
C4_OneRecordPerName ==
    /\ \A i, j \in 1..Len(book) : book[i].key = book[j].key => i = j
    /\ \A i \in 1..Len(book) : book[i].rec.name = book[i].key
    /\ last.op = "add_record" =>
        /\ index(book, last.name) # 0
        /\ Now = last.args[1]
        /\ \A i \in 1..Len(book) :
              \/ book[i].rec = last.args[1]
              \/ \E j \in 1..Len(before) : before[j] = book[i] /\ before[j].key # last.name

\* add_record replaced a record that had a phone and a birthday by a bare one
C4_Witness ==
    /\ last.op = "add_record"
    /\ index(before, last.name) # 0
    /\ Was.phones # <<>> /\ Was.birthday # None
    /\ last.args[1].phones = <<>> /\ last.args[1].birthday = None

\* C5: a fresh directory iterates over nothing, and while only add_record has
\* been called the directory iterates over one record per inserted name, in the
\* order of each name's first insertion
C5_InsertionOrder ==
    /\ last.op = "init" => book = <<>>
    /\ ~deleted => Keys(book) = inserted

\* add_record overwrote the first of two names
C5_Witness ==
    /\ ~deleted
    /\ last.op = "add_record"
    /\ Len(before) = 2
    /\ index(before, last.name) = 1
    /\ before[1].rec # last.args[1]

\* the next day on or after today with the birthday's month and day
NextOccurrence(birthday, today) ==
    LET days == {dt \in {<<y, birthday[2], birthday[3]>> : y \in today[1]..(today[1] + 8)} :
                    /\ valid_date(dt[1], dt[2], dt[3])
                    /\ toordinal(dt) >= toordinal(today)}
    IN  CHOOSE dt \in days : \A other \in days : toordinal(dt) <= toordinal(other)

\* the date a string YYYY.MM.DD names
DateOfYmd(s) ==
    << 1000 * (s[1] - 48) + 100 * (s[2] - 48) + 10 * (s[3] - 48) + (s[4] - 48),
       10 * (s[6] - 48) + (s[7] - 48),
       10 * (s[9] - 48) + (s[10] - 48) >>

Listed == {birthday_list[k].name : k \in 1..Len(birthday_list)}

\* C6: upcoming includes a record with a birthday other than 29 February if and
\* only if the birthday's next occurrence is 0 to 7 days after today, never
\* includes a record without a birthday, and lists in directory order
C6_Upcoming ==
    last.op = "birthdays" =>
        LET today == last.args[1] IN
        /\ \A i \in 1..Len(book) :
              LET rec == book[i].rec IN
              /\ rec.birthday = None => rec.name \notin Listed
              /\ (rec.birthday # None /\ <<rec.birthday[2], rec.birthday[3]>> # <<2, 29>>) =>
                    (rec.name \in Listed <=>
                        toordinal(NextOccurrence(rec.birthday, today)) - toordinal(today) \in 0..7)
        /\ \A k, l \in 1..Len(birthday_list) :
              k < l => index(book, birthday_list[k].name) < index(book, birthday_list[l].name)

\* C7: the date of an entry is the birthday's next occurrence when that is a
\* Monday to Friday, two days later when it is a Saturday and one day later
\* when it is a Sunday; so it is no Saturday or Sunday and not before the
\* occurrence; and the entry's name is the record's
C7_CongratulationDate ==
    last.op = "birthdays" =>
        \A k \in 1..Len(birthday_list) :
            LET entry == birthday_list[k]
                date == DateOfYmd(entry.congratulation_date)
            IN  /\ index(book, entry.name) # 0
                /\ AddressBook_find(book, entry.name).birthday # None
                /\ LET occurrence ==
                          NextOccurrence(AddressBook_find(book, entry.name).birthday, last.args[1])
                   IN  /\ weekday(occurrence) <= 4 => date = occurrence
                       /\ weekday(occurrence) = 5 => toordinal(date) = toordinal(occurrence) + 2
                       /\ weekday(occurrence) = 6 => toordinal(date) = toordinal(occurrence) + 1
                       /\ weekday(date) \notin {5, 6}
                       /\ toordinal(date) >= toordinal(occurrence)
                       /\ valid_date(date[1], date[2], date[3])

\* upcoming listed a birthday that falls on a Saturday and one that falls on a
\* Sunday
C7_Witness ==
    /\ last.op = "birthdays"
    /\ Len(birthday_list) = 2
    /\ \E k, l \in 1..2 :
          /\ weekday(NextOccurrence(AddressBook_find(book, birthday_list[k].name).birthday,
                                    last.args[1])) = 5
          /\ weekday(NextOccurrence(AddressBook_find(book, birthday_list[l].name).birthday,
                                    last.args[1])) = 6

\* C8: a command that ends in an error displays it, and the loop goes on
C8_ErrorsDisplayed ==
    last.exc # NoExc => (shown # <<>> /\ running)

\* C9: add on a present name keeps the record, its earlier phones and its
\* birthday, appends a valid phone and reports "Contact updated."; a record is
\* created, and "Contact added." reported, only for an absent name
C9_AddContact ==
    (last.op = "add" /\ Len(last.args) >= 2) =>
        LET name == last.args[1]
            phone == last.args[2]
            i == index(before, name)
        IN  /\ i # 0 =>
                /\ Len(book) = Len(before)
                /\ \A j \in 1..Len(book) : j # i => book[j] = before[j]
                /\ book[i].key = name
                /\ book[i].rec.name = name
                /\ book[i].rec.birthday = before[i].rec.birthday
                /\ TenAsciiDigits(phone) =>
                        /\ book[i].rec.phones = Append(before[i].rec.phones, phone)
                        /\ shown = <<"Contact updated.">>
                /\ ~TenAsciiDigits(phone) => book[i].rec.phones = before[i].rec.phones
            /\ (Len(book) > Len(before) \/ shown = <<"Contact added.">>) => i = 0
            /\ (i = 0 /\ TenAsciiDigits(phone)) =>
                /\ book = Append(before, [key |-> name,
                                          rec |-> [name |-> name, phones |-> <<phone>>,
                                                   birthday |-> None]])
                /\ shown = <<"Contact added.">>

\* add gave a second phone to a record with a phone and a birthday
C9_Witness ==
    /\ last.op = "add"
    /\ shown = <<"Contact updated.">>
    /\ AddressBook_find(before, last.args[1]).phones # <<>>
    /\ AddressBook_find(before, last.args[1]).birthday # None
    /\ Len(book) = 2

\* C10: a command that ends in an error leaves the directory as it was
C10_FailedCommandKeepsState ==
    last.exc # NoExc => book = before

====
